---- MODULE Spec2Model ----
(***************************************************************************)
(* A model of sunburnt/indexer.py: the declarative field mapping           *)
(* (IndexerMetaclass, BaseIndexer.transform) and the batch operations      *)
(* (add, update, delete, reindex) of BaseIndexer against a search backend. *)
(*                                                                         *)
(* Python values are encoded as integers: None is NONE, the falsy values   *)
(* 0 / "" / [] are EMPTY, every integer > 0 is a truthy scalar, and Obj is *)
(* a structured value whose attributes are found in the record under the   *)
(* dotted path that led to it.  MISSING marks an attribute the object does *)
(* not have (getattr raises AttributeError).                               *)
(***************************************************************************)
EXTENDS Integers, Sequences, FiniteSets, TLC

(***************************************************************************)
(* Bounds of the model.                                                    *)
(***************************************************************************)
MaxClock == 2        \* the clock runs over 1..MaxClock
MaxId == 3           \* records of the record source have ids 1..MaxId
ChunkScale == 2      \* the model's value of COMMIT_CHUNK_SIZE (1000 in the source)
MaxOps == 3          \* calls of add, update, delete and reindex a caller makes

(***************************************************************************)
(* Values.                                                                 *)
(***************************************************************************)
MISSING == -2
NONE == -1
EMPTY == 0
Obj == 9
AttributeError == -3
KeyError == -4

\* indexer.py line 7; ChunkScale stands for the source's 1000
COMMIT_CHUNK_SIZE == ChunkScale

\* a variant of Truthy that keeps the empty values (`if value is not None:`)
Truthy_notNone(value) == value # NONE

\* `if value:` (line 109): None and the empty values are falsy
Truthy(value) == value \notin {NONE, EMPTY}

Raised(value) == value \in {AttributeError, KeyError}

\* Field(attribute=None, optional=False), lines 10-14; attribute None is <<>>,
\* a dotted path "a.b" is <<"a", "b">> (what attribute.split('.') returns).
Field(attribute, optional) == [attribute |-> attribute, optional |-> optional]

SystemFields == {"meta_type_s", "meta_index_timestamp_dt"}

\* schema.get_attribute_or_callable(value, name): the attribute `name` of
\* `value` (called when it is callable); AttributeError when `value` has no
\* such attribute.  `prefix` is the path that led to `value`.
get_attribute_or_callable(record, prefix, value, name) ==
    IF value # Obj THEN AttributeError
    ELSE IF record[Append(prefix, name)] = MISSING THEN AttributeError
    ELSE record[Append(prefix, name)]

\* lines 92-101: the value after the first n segments of the path
RECURSIVE Walk(_, _, _)
Walk(record, path, n) ==
    IF n = 0 THEN Obj
    ELSE LET value == Walk(record, path, n - 1)
         IN IF Raised(value) THEN value
            ELSE IF value = NONE THEN AttributeError
            ELSE get_attribute_or_callable(record, SubSeq(path, 1, n - 1), value, path[n])

\* line 113-114
transform_meta_type(meta) ==
    IF "type" \in DOMAIN meta THEN meta["type"] ELSE KeyError

\* line 116-117
transform_meta_index_timestamp(clock) == clock

\* the transform_id of a type that defines one: the record's identifier,
\* record.id, an AttributeError on a record without one
transform_id(x) == IF x[<<"id">>] = MISSING THEN AttributeError ELSE x[<<"id">>]

\* lines 81-90: getattr(self, 'transform_<name>')(record) finds the two hooks
\* of BaseIndexer and the methods the class of self defines (`methods`);
\* any other name is an AttributeError
Hook(field_name, methods, meta, clock, record) ==
    CASE field_name = "meta_type_s" -> transform_meta_type(meta)
      [] field_name = "meta_index_timestamp_dt" -> transform_meta_index_timestamp(clock)
      [] field_name = "id" /\ "transform_id" \in methods -> transform_id(record)
      [] OTHER -> AttributeError

\* lines 79-102: the value one field resolves to, or the exception raised
Resolve(field_name, field, methods, meta, clock, record) ==
    IF field.attribute = <<>> THEN Hook(field_name, methods, meta, clock, record)
    ELSE Walk(record, field.attribute, Len(field.attribute))

\* a variant of Propagates that re-raises for optional fields too
Propagates_always(field, value) == Raised(value)

\* lines 103-105: the exception leaves the field's try block
Propagates(field, value) ==
    \/ value = KeyError
    \/ value = AttributeError /\ ~field.optional

\* lines 106-110: the field is written into the document
Included(field, value) == ~Raised(value) /\ Truthy(value)

NoDocument == [f \in {} |-> EMPTY]

\* lines 75-111.  The outcome does not depend on the order in which the dict
\* self.fields is walked: any propagating field aborts the whole call.
transform(fields, methods, meta, clock, record) ==
    LET value == [f \in DOMAIN fields |->
                     Resolve(f, fields[f], methods, meta, clock, record)]
        failing == {f \in DOMAIN fields : Propagates(fields[f], value[f])}
        keys == {f \in DOMAIN fields : Included(fields[f], value[f])}
    IN IF failing # {}
       THEN [raised |-> TRUE, document |-> NoDocument]
       ELSE [raised |-> FALSE, document |-> [f \in keys |-> value[f]]]

\* lines 64-68: the instance's fields are the class's base_fields plus the
\* two system fields, which replace declared fields of the same name
InstanceFields(base_fields) ==
    [f \in DOMAIN base_fields \cup SystemFields |->
        IF f \in SystemFields THEN Field(<<>>, FALSE) ELSE base_fields[f]]

(***************************************************************************)
(* Indexer types: IndexerMetaclass.__new__ (lines 22-56).                  *)
(*                                                                         *)
(* A dict is a function whose domain is its key set.  Every class owns the *)
(* dict object of its base_fields (line 52 copies), but _meta is stored by *)
(* reference (line 53): `heap` maps each _meta dict object to its content  *)
(* and `meta` maps a class to the object it refers to.  A dict created by  *)
(* the definition of class c is named c.                                   *)
(***************************************************************************)
Classes == {"A", "B", "C"}
Indexer == "Indexer"          \* the base type, lines 167-168: no _meta, no base_fields
Undefined == "undefined"

EmptyDict == [k \in {} |-> EMPTY]

\* dict.update
Update(d, e) == [k \in DOMAIN d \cup DOMAIN e |-> IF k \in DOMAIN e THEN e[k] ELSE d[k]]

Restrict(d, keys) == [k \in DOMAIN d \cap keys |-> d[k]]

\* no indexer type defined yet
NoTypes ==
    [base |-> [c \in Classes |-> Undefined],
     meta |-> [c \in Classes |-> c],
     heap |-> [c \in Classes |-> EmptyDict],
     base_fields |-> [c \in Classes |-> EmptyDict],
     declared |-> [c \in Classes |-> [meta |-> EmptyDict, fields |-> EmptyDict]],
     methods |-> [c \in Classes |-> {}],
     error |-> FALSE]

Defined(t) == {c \in Classes : t.base[c] # Undefined}

\* cls._meta as attribute lookup finds it
MetaOf(t, c) == t.heap[t.meta[c]]

\* the merge the spec describes for a subtype: the inherited mapping with
\* the subtype's own keys overriding (used only to record what a type
\* declared; `declared` is not program state)
Declared(t, base, attrs) ==
    [meta |-> Update(IF base = Indexer THEN EmptyDict ELSE t.declared[base].meta,
                     IF attrs.hasMeta THEN attrs.Meta ELSE EmptyDict),
     fields |-> Update(IF base = Indexer THEN EmptyDict ELSE t.declared[base].fields,
                       attrs.fields)]

\* line 55: the methods of the class body stay in attrs and become attributes
\* of the class, after those the base class has
Methods(t, base, attrs) ==
    (IF base = Indexer THEN {} ELSE t.methods[base]) \cup attrs.methods

\* line 40: the check made while the Meta attribute is walked
MissingType(attrs, meta) == attrs.hasMeta /\ "type" \notin DOMAIN meta

\* lines 22-56.  attrs = [fields, hasMeta, Meta, walked, methods]: the Field
\* attributes of the class body, its Meta block if any, the fields the
\* loop of line 35 reaches before it reaches Meta (attrs is a dict: any
\* order), and the names of the methods the body defines.  Lines 26-27 fetch the base's dict objects, or fresh dicts under
\* Indexer; lines 37 and 39 update them in place.
metaclass_new(t, name, base, attrs) ==
    LET fresh == base = Indexer
        ref == IF fresh THEN name ELSE t.meta[base]
        base_fields == IF fresh THEN EmptyDict ELSE t.base_fields[base]
        base_meta == IF fresh THEN EmptyDict ELSE t.heap[ref]
        meta == IF attrs.hasMeta THEN Update(base_meta, attrs.Meta) ELSE base_meta
        fails == MissingType(attrs, meta)
        merged == Update(base_fields,
                         IF fails THEN Restrict(attrs.fields, attrs.walked)
                         ELSE attrs.fields)
        heap1 == IF fresh THEN t.heap ELSE [t.heap EXCEPT ![ref] = meta]
        fields1 == IF fresh THEN t.base_fields
                   ELSE [t.base_fields EXCEPT ![base] = merged]
    IN IF fails
       THEN [t EXCEPT !.heap = heap1, !.base_fields = fields1, !.error = TRUE]
       ELSE [t EXCEPT !.base[name] = base,
                      !.meta[name] = ref,
                      !.heap = [heap1 EXCEPT ![ref] = meta],
                      !.base_fields = [fields1 EXCEPT ![name] = merged],
                      !.declared[name] = Declared(t, base, attrs),
                      !.methods[name] = Methods(t, base, attrs),
                      !.error = FALSE]

(***************************************************************************)
(* Inputs of the type definitions.                                         *)
(***************************************************************************)
Tags == {1, 2}
MetaBlocks == {EmptyDict, [type |-> 1], [type |-> 2, label |-> 2]}

\* the Field attributes of the class bodies of SpecMeta and Spec
FieldBlocks ==
    {EmptyDict,
     [id |-> Field(<<"id">>, FALSE), title |-> Field(<<"title">>, FALSE)],
     [title |-> Field(<<"author", "name">>, TRUE)]}

\* the Field attributes of the class bodies of SpecTransform
FieldChoices ==
    {Field(<<"id">>, FALSE), Field(<<"title">>, FALSE), Field(<<"title">>, TRUE),
     Field(<<"author", "name">>, FALSE), Field(<<"author", "name">>, TRUE),
     Field(<<>>, FALSE), Field(<<>>, TRUE)}
TransformFieldBlocks ==
    UNION {[names -> FieldChoices] : names \in {{"id"}, {"id", "title"}}}

\* the class bodies tried: with or without a Meta block
Bodies(blocks, methodSets) ==
    {[fields |-> f, hasMeta |-> TRUE, Meta |-> m, walked |-> w, methods |-> ms] :
        f \in blocks, m \in MetaBlocks, w \in SUBSET {"id", "title"},
        ms \in methodSets}
    \cup {[fields |-> f, hasMeta |-> FALSE, Meta |-> EmptyDict, walked |-> {},
            methods |-> ms] :
        f \in blocks, ms \in methodSets}

\* the methods a class body may define: none, or a transform_id hook
MethodSets == {{}, {"transform_id"}}
ClassBodies == Bodies(FieldBlocks, {{}})
TransformBodies == Bodies(TransformFieldBlocks, MethodSets)

WellFormed(attrs) == attrs.walked \subseteq DOMAIN attrs.fields

(***************************************************************************)
(* Records.  A record maps every dotted path to the value found there.     *)
(***************************************************************************)
Paths == {<<"id">>, <<"title">>, <<"author">>, <<"author", "name">>}

Record(id, title, author, name) ==
    (<<"id">> :> id) @@ (<<"title">> :> title) @@ (<<"author">> :> author)
        @@ (<<"author", "name">> :> name)

TitleValue == 5
NameValue == 7

\* the records transform is tried on
Records ==
    {Record(id, title, author, MISSING) :
        id \in {MISSING, NONE, EMPTY, 1},
        title \in {MISSING, NONE, EMPTY, TitleValue},
        author \in {MISSING, NONE, TitleValue}}
    \cup {Record(id, title, Obj, name) :
        id \in {MISSING, NONE, EMPTY, 1},
        title \in {MISSING, NONE, EMPTY, TitleValue},
        name \in {MISSING, NONE, EMPTY, NameValue}}

(***************************************************************************)
(* State.                                                                  *)
(***************************************************************************)
Instances == {1, 2}

VARIABLES
    types,             \* the indexer types defined so far
    now,               \* datetime.datetime.now()
    cls,               \* instance -> its class (Undefined before construction)
    index_timestamp,   \* instance -> self.index_timestamp
    fields,            \* instance -> self.fields
    record,            \* the record handed to transform
    result,            \* what transform did with it
    backend,           \* the search index: unique key -> document
    source,            \* what get_records() yields
    pc,                \* instance -> where its reindex() stands
    update_count,      \* instance -> update_count of reindex()
    record_pool,       \* instance -> record_pool of reindex()
    calls,             \* instance -> backend calls of its current or latest operation
    outcome,           \* instance -> how that operation ended
    stamps,            \* instance -> times of the transform calls of that operation
    swept,             \* the index as the latest reconciliation delete found it
    hist,              \* the latest reindex() calls, for runs in succession
    done,              \* the instance whose reindex() has just returned, or 0
    budget,            \* calls of add, update, delete and reindex the caller may still make
    request,           \* instance -> the arguments of its current or latest operation
    faulty             \* whether the backend may fail a call

typeVars == <<types>>
instVars == <<cls, index_timestamp, fields>>
transformVars == <<record, result>>
runVars == <<backend, source, pc, update_count, record_pool, calls, outcome,
             stamps, swept, hist, done, budget, request, faulty>>
vars == <<types, now, cls, index_timestamp, fields, record, result, backend,
          source, pc, update_count, record_pool, calls, outcome, stamps, swept,
          hist, done, budget, request, faulty>>

\* `at` is the time of the call
NoResult == [raised |-> FALSE, document |-> NoDocument, done |-> FALSE, at |-> 1]

Ids == 1..MaxId
NoBackend == [k \in Ids |-> NoDocument]
NoOutcome == [op |-> "none", state |-> "none", value |-> 0]
NoRequest == [records |-> <<>>, list |-> FALSE, commit |-> FALSE]
NoHist == [run |-> 0, inst |-> 0, tag |-> 0, source |-> <<>>, ids |-> {},
           second |-> FALSE, before |-> {}]

\* the run variables of a state in which no operation has been called
IdleRun ==
    /\ backend = NoBackend
    /\ source = [i \in Instances |-> <<>>]
    /\ pc = [i \in Instances |-> "idle"]
    /\ update_count = [i \in Instances |-> 0]
    /\ record_pool = [i \in Instances |-> <<>>]
    /\ calls = [i \in Instances |-> <<>>]
    /\ outcome = [i \in Instances |-> NoOutcome]
    /\ request = [i \in Instances |-> NoRequest]
    /\ stamps = [i \in Instances |-> <<>>]
    /\ swept = NoBackend
    /\ hist = NoHist
    /\ done = 0

(***************************************************************************)
(* SpecMeta: indexer types are defined one after the other.                *)
(***************************************************************************)
DefineClass(name, base, attrs) ==
    /\ WellFormed(attrs)
    /\ name \notin Defined(types)
    /\ base \in Defined(types) \cup {Indexer}
    /\ types' = metaclass_new(types, name, base, attrs)
    /\ UNCHANGED <<now, instVars, transformVars, runVars>>

InitMeta ==
    /\ types = NoTypes
    /\ now = 1
    /\ cls = [i \in Instances |-> Undefined]
    /\ index_timestamp = [i \in Instances |-> 1]
    /\ fields = [i \in Instances |-> EmptyDict]
    /\ record = Record(MISSING, MISSING, MISSING, MISSING)
    /\ result = NoResult
    /\ IdleRun
    /\ budget = 0
    /\ faulty = FALSE

NextMeta ==
    \E name \in Classes, base \in Classes \cup {Indexer}, attrs \in ClassBodies :
        DefineClass(name, base, attrs)

SpecMeta == InitMeta /\ [][NextMeta]_vars

(***************************************************************************)
(* SpecTransform: one indexer type, one instance, transform applied to a   *)
(* record.                                                                 *)
(***************************************************************************)
Tick ==
    /\ now < MaxClock
    /\ now' = now + 1
    /\ UNCHANGED <<types, instVars, transformVars, runVars>>

Transform(i) ==
    /\ cls[i] # Undefined
    /\ ~result.done
    /\ LET t == transform(fields[i], types.methods[cls[i]], MetaOf(types, cls[i]),
                          now, record)
       IN result' = [raised |-> t.raised, document |-> t.document,
                     done |-> TRUE, at |-> now]
    /\ UNCHANGED <<types, now, instVars, record, runVars>>

InitTransform ==
    /\ \E attrs \in TransformBodies :
          /\ attrs.walked = {}
          /\ types = metaclass_new(NoTypes, "A", Indexer, attrs)
    /\ ~types.error
    /\ now = 1
    /\ cls = [i \in Instances |-> IF i = 1 THEN "A" ELSE Undefined]
    /\ index_timestamp = [i \in Instances |-> 1]
    /\ fields = [i \in Instances |->
                    IF i = 1 THEN InstanceFields(types.base_fields["A"]) ELSE EmptyDict]
    /\ record \in Records
    /\ result = NoResult
    /\ IdleRun
    /\ budget = 0
    /\ faulty = FALSE

NextTransform == Transform(1) \/ Tick

SpecTransform == InitTransform /\ [][NextTransform]_vars

(***************************************************************************)
(* The search backend (self.interface): documents are stored under their   *)
(* unique key, the field id; an add replaces the document of the same key. *)
(* A query is the conjunction reindex() builds: a type and a time bound.   *)
(***************************************************************************)
AddCall(docs) == [op |-> "add", docs |-> docs, ok |-> TRUE]
CommitCall == [op |-> "commit", docs |-> <<>>, ok |-> TRUE]
DeleteCall(query) == [op |-> "delete", docs |-> <<query>>, ok |-> TRUE]
Failed(call) == [call EXCEPT !.ok = FALSE]

RECURSIVE BackendAdd(_, _)
BackendAdd(store, docs) ==
    IF docs = <<>> THEN store
    ELSE BackendAdd(IF "id" \in DOMAIN Head(docs)
                    THEN [store EXCEPT ![Head(docs)["id"]] = Head(docs)]
                    ELSE store,
                    Tail(docs))

\* Q(meta_type_s=...) & Q(meta_index_timestamp_dt__lt=...)
Matches(doc, query) ==
    /\ "meta_type_s" \in DOMAIN doc
    /\ "meta_index_timestamp_dt" \in DOMAIN doc
    /\ doc["meta_type_s"] = query.meta_type_s
    /\ doc["meta_index_timestamp_dt"] < query.meta_index_timestamp_dt__lt

BackendDelete(store, query) ==
    [k \in Ids |-> IF Matches(store[k], query) THEN NoDocument ELSE store[k]]

(***************************************************************************)
(* The record source and the inputs of add().                              *)
(***************************************************************************)
Titled(id) == Record(id, TitleValue, MISSING, MISSING)
Untitled(id) == Record(id, MISSING, MISSING, MISSING)

RECURSIVE Ascending(_)
Ascending(S) ==
    IF S = {} THEN <<>>
    ELSE LET k == CHOOSE x \in S : \A y \in S : x <= y
         IN <<k>> \o Ascending(S \ {k})

\* the records of the ids S in ascending order; the record `bad`, if among
\* them, has no title
SourceOf(S, bad) ==
    LET ids == Ascending(S)
    IN [n \in 1..Len(ids) |->
           IF ids[n] = bad THEN Untitled(ids[n]) ELSE Titled(ids[n])]

\* what get_records() may yield: the records 1..n, one of them possibly
\* without a title
Sources == {SourceOf(1..n, bad) : n \in 0..MaxId, bad \in 0..MaxId}

\* the inputs of Spec: records that have a title, and the sources of no
\* record, of record 1, and of records 1 and 2
ScenarioRecords == {Titled(MaxId)}
ScenarioLists == {<<Titled(1), Titled(MaxId)>>}
ScenarioSources == {SourceOf({}, 0), SourceOf({1}, 0), SourceOf({1, 2}, 0)}

(***************************************************************************)
(* Spec: instances of two indexer types work on one backend.               *)
(***************************************************************************)
ArticleBody ==
    [fields |-> [id |-> Field(<<"id">>, FALSE), title |-> Field(<<"title">>, FALSE)],
     hasMeta |-> TRUE, Meta |-> [type |-> 1], walked |-> {}, methods |-> {}]
NoteBody ==
    [fields |-> [id |-> Field(<<"id">>, FALSE), title |-> Field(<<"title">>, TRUE)],
     hasMeta |-> TRUE, Meta |-> [type |-> 2], walked |-> {},
     methods |-> {"transform_id"}]

\* class A(Indexer), then class B(Indexer) or class B(A)
StartTypes ==
    {metaclass_new(metaclass_new(NoTypes, "A", Indexer, ArticleBody), "B", base, NoteBody) :
        base \in {Indexer, "A"}}

Meta(i) == MetaOf(types, cls[i])

\* the methods getattr(self, ...) finds on the class of indexer i
MethodsOf(i) == types.methods[cls[i]]

\* BaseIndexer.__init__, lines 60-68 (the schema calls of lines 70-73 bind
\* every field: the schema knows them all)
Construct(i, c) ==
    /\ c \in Defined(types)
    /\ pc[i] = "idle"
    /\ cls' = [cls EXCEPT ![i] = c]
    /\ index_timestamp' = [index_timestamp EXCEPT ![i] = now]
    /\ fields' = [fields EXCEPT ![i] = InstanceFields(types.base_fields[c])]
    /\ calls' = [calls EXCEPT ![i] = <<>>]
    /\ outcome' = [outcome EXCEPT ![i] = NoOutcome]
    /\ request' = [request EXCEPT ![i] = NoRequest]
    /\ stamps' = [stamps EXCEPT ![i] = <<>>]
    /\ done' = 0
    /\ UNCHANGED <<types, now, transformVars, backend, source, pc, update_count,
                   record_pool, swept, hist, budget, faulty>>

\* line 126-127
AsList(input) == IF input.list THEN input.value ELSE <<input.value>>

\* the readings of the clock that n calls made one after the other, from
\* the time `from` on, may get: datetime.datetime.now() never goes back
Readings(from, n) ==
    {clocks \in [1..n -> from..MaxClock] :
        \A k \in 1..(n - 1) : clocks[k] <= clocks[k + 1]}

\* a variant of TransformAll that skips the records whose transformation
\* raises
RECURSIVE TransformAll_skips(_, _, _, _, _)
TransformAll_skips(fs, methods, meta, clocks, records) ==
    IF records = <<>> THEN [raised |-> FALSE, documents |-> <<>>, reached |-> 0]
    ELSE LET t == transform(fs, methods, meta, Head(clocks), Head(records))
             rest == TransformAll_skips(fs, methods, meta, Tail(clocks), Tail(records))
         IN [raised |-> FALSE,
             documents |-> (IF t.raised THEN <<>> ELSE <<t.document>>) \o rest.documents,
             reached |-> 1 + rest.reached]

\* [self.transform(x) for x in records], line 128: the documents, up to the
\* first record whose transformation raises.  Each call of transform reads
\* the clock itself (line 117): clocks[n] is the reading of the n-th call,
\* and `reached` the number of calls made.
RECURSIVE TransformAll(_, _, _, _, _)
TransformAll(fs, methods, meta, clocks, records) ==
    IF records = <<>> THEN [raised |-> FALSE, documents |-> <<>>, reached |-> 0]
    ELSE LET t == transform(fs, methods, meta, Head(clocks), Head(records))
             rest == TransformAll(fs, methods, meta, Tail(clocks), Tail(records))
         IN IF t.raised THEN [raised |-> TRUE, documents |-> <<>>, reached |-> 1]
            ELSE [raised |-> rest.raised,
                  documents |-> IF rest.raised THEN <<>>
                                ELSE <<t.document>> \o rest.documents,
                  reached |-> 1 + rest.reached]

\* a variant of AddCalls that commits whatever the argument
AddCalls_commit(docs, commit, fail) == <<AddCall(docs), CommitCall>>

\* lines 128-130: the backend calls of add(); `fail` names the call the
\* backend fails, if any
AddCalls(docs, commit, fail) ==
    IF fail = "add" THEN <<Failed(AddCall(docs))>>
    ELSE IF ~commit THEN <<AddCall(docs)>>
    ELSE IF fail = "commit" THEN <<AddCall(docs), Failed(CommitCall)>>
    ELSE <<AddCall(docs), CommitCall>>

\* the store after the calls that succeeded
RECURSIVE Apply(_, _)
Apply(store, log) ==
    IF log = <<>> THEN store
    ELSE LET call == Head(log)
             next == IF ~call.ok THEN store
                     ELSE IF call.op = "add" THEN BackendAdd(store, call.docs)
                     ELSE IF call.op = "delete" THEN BackendDelete(store, call.docs[1])
                     ELSE store
         IN Apply(next, Tail(log))

AllOk(log) == \A n \in 1..Len(log) : log[n].ok

\* lines 126-130, as add() runs them and as update() does through its call
\* add(records, commit=True): `commit` is the argument the caller gave,
\* `effective` the one lines 129-130 see.  The clock may advance between
\* the transform calls of line 128; it stands, after the call, where the
\* last transform call read it.
Submit(op, i, input, commit, effective, fail) ==
    /\ cls[i] # Undefined
    /\ pc[i] = "idle"
    /\ budget > 0
    /\ fail = "commit" => effective
    /\ fail # "none" => faulty
    /\ \E clocks \in Readings(now, Len(AsList(input))) :
          LET t == TransformAll(fields[i], MethodsOf(i), Meta(i), clocks, AsList(input))
              log == IF t.raised THEN <<>> ELSE AddCalls(t.documents, effective, fail)
          IN /\ ~t.raised \/ fail = "none"
             /\ calls' = [calls EXCEPT ![i] = log]
             /\ backend' = Apply(backend, log)
             /\ outcome' = [outcome EXCEPT ![i] =
                    [op |-> op,
                     state |-> IF t.raised \/ ~AllOk(log) THEN "raised" ELSE "returned",
                     value |-> 0]]
             /\ stamps' = [stamps EXCEPT ![i] =
                    IF t.raised THEN <<>> ELSE clocks]
             /\ now' = IF t.reached = 0 THEN now ELSE clocks[t.reached]
    /\ request' = [request EXCEPT ![i] =
           [records |-> AsList(input), list |-> input.list, commit |-> commit]]
    /\ hist' = NoHist
    /\ done' = 0
    /\ budget' = budget - 1
    /\ UNCHANGED <<types, instVars, transformVars, source, pc, update_count,
                   record_pool, swept, faulty>>

\* BaseIndexer.add, lines 122-130
Add(i, input, commit, fail) == Submit("add", i, input, commit, commit, fail)

\* a variant of update that passes its commit argument on
update_passes(i, input, commit, fail) == Submit("update", i, input, commit, commit, fail)

\* BaseIndexer.update, lines 132-133: self.add(records, commit=True)
update(i, input, commit, fail) == Submit("update", i, input, commit, TRUE, fail)

(***************************************************************************)
(* BaseIndexer.reindex, lines 142-164, one step per backend call and per  *)
(* transformation of a record.                                             *)
(***************************************************************************)
Idle == \A j \in Instances : pc[j] = "idle"

\* the steps of run i keep a succession going only if i is its second run
HistStep(i) == IF hist.run = 2 /\ hist.inst = i THEN hist ELSE NoHist

\* a variant of Raise in which the run goes on after the failure
Raise_continues(i, log) ==
    /\ pc' = pc
    /\ calls' = [calls EXCEPT ![i] = log]
    /\ outcome' = outcome
    /\ hist' = NoHist

\* an exception leaves reindex(): the run ends where it stands
Raise(i, log) ==
    /\ pc' = [pc EXCEPT ![i] = "idle"]
    /\ calls' = [calls EXCEPT ![i] = log]
    /\ outcome' = [outcome EXCEPT ![i] = [op |-> "reindex", state |-> "raised", value |-> 0]]
    /\ hist' = NoHist

\* lines 143-146: update_count = 0, record_pool = [], get_records() called
ReindexStart(i, records) ==
    /\ cls[i] # Undefined
    /\ pc[i] = "idle"
    /\ budget > 0
    /\ source' = [source EXCEPT ![i] = records]
    /\ pc' = [pc EXCEPT ![i] = "streaming"]
    /\ update_count' = [update_count EXCEPT ![i] = 0]
    /\ record_pool' = [record_pool EXCEPT ![i] = <<>>]
    /\ calls' = [calls EXCEPT ![i] = <<>>]
    /\ stamps' = [stamps EXCEPT ![i] = <<>>]
    /\ outcome' = [outcome EXCEPT ![i] = [op |-> "reindex", state |-> "running", value |-> 0]]
    /\ request' = [request EXCEPT ![i] = NoRequest]
    /\ hist' = IF hist.run = 1 /\ Idle /\ hist.source = records
               THEN [hist EXCEPT !.run = 2, !.inst = i] ELSE NoHist
    /\ done' = 0
    /\ budget' = budget - 1
    /\ UNCHANGED <<types, now, instVars, transformVars, backend, swept, faulty>>

\* a variant of ChunkBoundary that flushes one record late
ChunkBoundary_late(count) == count % (COMMIT_CHUNK_SIZE + 1) = 0

\* line 147
ChunkBoundary(count) == count % COMMIT_CHUNK_SIZE = 0

\* a variant of ChunkCalls that commits every chunk
ChunkCalls_commit(pool) == <<AddCall(pool), CommitCall>>

\* a variant of ChunkCalls that sends an empty batch and loses the pool
ChunkCalls_empty(pool) == <<AddCall(<<>>)>>

\* a variant of ChunkCalls that sends the pool twice
ChunkCalls_twice(pool) == <<AddCall(pool), AddCall(pool)>>

\* line 148: the backend calls made at a chunk boundary
ChunkCalls(pool) == <<AddCall(pool)>>

\* lines 146-149: the chunk test of line 147 holds for the record fetched;
\* the pool is sent to the backend and emptied, the record is yet to be
\* transformed
ReindexChunk(i, fail) ==
    /\ pc[i] = "streaming"
    /\ update_count[i] < Len(source[i])
    /\ ChunkBoundary(update_count[i])
    /\ fail => faulty
    /\ done' = 0
    /\ LET made == ChunkCalls(record_pool[i])
           log == calls[i] \o (IF fail THEN <<Failed(made[1])>> ELSE made)
       IN IF fail
          THEN /\ Raise(i, log)
               /\ UNCHANGED <<backend, record_pool>>
          ELSE /\ backend' = Apply(backend, made)
               /\ calls' = [calls EXCEPT ![i] = log]
               /\ record_pool' = [record_pool EXCEPT ![i] = <<>>]
               /\ pc' = [pc EXCEPT ![i] = "transforming"]
               /\ hist' = HistStep(i)
               /\ UNCHANGED outcome
    /\ UNCHANGED <<types, now, instVars, transformVars, source, update_count,
                   stamps, swept, budget, request, faulty>>

\* lines 150-151: the record fetched is transformed, which reads the clock,
\* and joins the pool; it follows the chunk step, or the test of line 147
\* when that fails
ReindexNext(i) ==
    /\ \/ pc[i] = "transforming"
       \/ /\ pc[i] = "streaming"
          /\ update_count[i] < Len(source[i])
          /\ ~ChunkBoundary(update_count[i])
    /\ done' = 0
    /\ LET t == transform(fields[i], MethodsOf(i), Meta(i), now,
                          source[i][update_count[i] + 1])
       IN IF t.raised
          THEN /\ Raise(i, calls[i])
               /\ UNCHANGED <<record_pool, update_count, stamps>>
          ELSE /\ record_pool' = [record_pool EXCEPT ![i] = Append(@, t.document)]
               /\ update_count' = [update_count EXCEPT ![i] = @ + 1]
               /\ stamps' = [stamps EXCEPT ![i] = Append(@, now)]
               /\ pc' = [pc EXCEPT ![i] = "streaming"]
               /\ hist' = HistStep(i)
               /\ UNCHANGED <<calls, outcome>>
    /\ UNCHANGED <<types, now, instVars, transformVars, backend, source, swept,
                   budget, request, faulty>>

\* lines 153-155: the remainder, once the source is exhausted
ReindexFlush(i, fail) ==
    /\ pc[i] = "streaming"
    /\ update_count[i] = Len(source[i])
    /\ fail => faulty /\ Len(record_pool[i]) > 0
    /\ done' = 0
    /\ LET made == IF Len(record_pool[i]) > 0 THEN <<AddCall(record_pool[i])>> ELSE <<>>
           log == calls[i] \o (IF fail THEN <<Failed(made[1])>> ELSE made)
       IN IF fail
          THEN /\ Raise(i, log)
               /\ UNCHANGED <<backend, record_pool>>
          ELSE /\ backend' = Apply(backend, made)
               /\ calls' = [calls EXCEPT ![i] = log]
               /\ record_pool' = [record_pool EXCEPT ![i] = <<>>]
               /\ pc' = [pc EXCEPT ![i] = "committing"]
               /\ hist' = HistStep(i)
               /\ UNCHANGED outcome
    /\ UNCHANGED <<types, now, instVars, transformVars, source, update_count,
                   stamps, swept, budget, request, faulty>>

\* line 157
ReindexCommit(i, fail) ==
    /\ pc[i] = "committing"
    /\ fail => faulty
    /\ done' = 0
    /\ IF fail
       THEN Raise(i, Append(calls[i], Failed(CommitCall)))
       ELSE /\ calls' = [calls EXCEPT ![i] = Append(@, CommitCall)]
            /\ pc' = [pc EXCEPT ![i] = "reconciling"]
            /\ hist' = HistStep(i)
            /\ UNCHANGED outcome
    /\ UNCHANGED <<types, now, instVars, transformVars, backend, source, update_count,
                   record_pool, stamps, swept, budget, request, faulty>>

\* a variant of ReindexQuery that also selects the documents written at the
\* watermark itself (__lte for __lt)
ReindexQuery_lte(meta, timestamp) ==
    [meta_type_s |-> meta["type"], meta_index_timestamp_dt__lt |-> timestamp + 1]

\* a variant of ReindexQuery whose time bound is before every document
ReindexQuery_never(meta, timestamp) ==
    [meta_type_s |-> meta["type"], meta_index_timestamp_dt__lt |-> 0]

\* lines 159-162: the query of the reconciliation delete
ReindexQuery(meta, timestamp) ==
    [meta_type_s |-> meta["type"], meta_index_timestamp_dt__lt |-> timestamp]

TaggedIds(store, tag) ==
    {k \in Ids : "meta_type_s" \in DOMAIN store[k] /\ store[k]["meta_type_s"] = tag}

\* lines 159-164: the reconciliation delete and the return
ReindexDelete(i, fail) ==
    /\ pc[i] = "reconciling"
    /\ fail => faulty
    /\ IF "type" \notin DOMAIN Meta(i)
       THEN /\ ~fail
            /\ Raise(i, calls[i])
            /\ done' = 0
            /\ UNCHANGED <<backend, swept>>
       ELSE LET query == ReindexQuery(Meta(i), index_timestamp[i])
            IN IF fail
               THEN /\ Raise(i, Append(calls[i], Failed(DeleteCall(query))))
                    /\ done' = 0
                    /\ UNCHANGED <<backend, swept>>
               ELSE /\ backend' = BackendDelete(backend, query)
                    /\ pc' = [pc EXCEPT ![i] = "idle"]
                    /\ swept' = backend
                    /\ calls' = [calls EXCEPT ![i] = Append(@, DeleteCall(query))]
                    /\ outcome' = [outcome EXCEPT ![i] =
                           [op |-> "reindex", state |-> "returned",
                            value |-> update_count[i]]]
                    /\ done' = i
                    /\ LET second == hist.run = 2 /\ hist.inst = i
                                        /\ hist.tag = query.meta_type_s
                       IN hist' = [run |-> 1, inst |-> i, tag |-> query.meta_type_s,
                                   source |-> source[i],
                                   ids |-> TaggedIds(backend', query.meta_type_s),
                                   second |-> second,
                                   before |-> IF second THEN hist.ids ELSE {}]
    /\ UNCHANGED <<types, now, instVars, transformVars, source, update_count,
                   record_pool, stamps, budget, request, faulty>>

\* add(), given a single record or a list
Batch(i, singles, lists) ==
    \/ \E r \in singles, commit \in BOOLEAN, fail \in {"none", "add", "commit"} :
          Add(i, [list |-> FALSE, value |-> r], commit, fail)
    \/ \E l \in lists, commit \in BOOLEAN, fail \in {"none", "add", "commit"} :
          Add(i, [list |-> TRUE, value |-> l], commit, fail)

\* reindex(), step by step
Reindex(i, sources) ==
    \/ \E records \in sources : ReindexStart(i, records)
    \/ \E fail \in BOOLEAN : ReindexChunk(i, fail)
    \/ ReindexNext(i)
    \/ \E fail \in BOOLEAN : ReindexFlush(i, fail)
    \/ \E fail \in BOOLEAN : ReindexCommit(i, fail)
    \/ \E fail \in BOOLEAN : ReindexDelete(i, fail)

\* the types are defined and an indexer of class c is constructed
Constructed(c) ==
    /\ types \in StartTypes
    /\ now = 1
    /\ cls = [i \in Instances |-> IF i = 1 THEN c ELSE Undefined]
    /\ index_timestamp = [i \in Instances |-> 1]
    /\ fields = [i \in Instances |->
                    IF i = 1 THEN InstanceFields(types.base_fields[c]) ELSE EmptyDict]
    /\ record = Record(MISSING, MISSING, MISSING, MISSING)
    /\ result = NoResult
    /\ IdleRun

\* Spec: a caller works with one indexer at a time, constructing new ones
\* as it goes; the backend does not fail
Init ==
    /\ Constructed("A")
    /\ budget = MaxOps
    /\ faulty = FALSE

Next ==
    \/ Tick
    \/ \E c \in Classes : Construct(1, c)
    \/ Batch(1, ScenarioRecords, ScenarioLists)
    \/ Reindex(1, ScenarioSources)

Spec == Init /\ [][Next]_vars

\* SpecRun: one reindex() of one indexer, over any source, on a backend that
\* may or may not fail
InitRun ==
    /\ \E c \in {"A", "B"} : Constructed(c)
    /\ budget = 1
    /\ faulty \in BOOLEAN

NextRun == Tick \/ Reindex(1, Sources)

SpecRun == InitRun /\ [][NextRun]_vars

(***************************************************************************)
(* BaseIndexer.delete, lines 135-140.  BaseIndexer defines no transform_id: *)
(* the call of line 138 finds the method only on a type that defines it.   *)
(***************************************************************************)
\* self.interface.delete(ids)
DeleteIdsCall(ids) == [op |-> "delete", docs |-> ids, ok |-> TRUE]

BackendDeleteIds(store, ids) ==
    [k \in Ids |-> IF \E n \in 1..Len(ids) : ids[n] = k THEN NoDocument ELSE store[k]]

\* a variant of DeleteCalls that commits whatever the argument
DeleteCalls_commit(ids, commit, fail) == <<DeleteIdsCall(ids), CommitCall>>

\* lines 138-140: the backend calls of delete(); `fail` names the call the
\* backend fails, if any
DeleteCalls(ids, commit, fail) ==
    IF fail = "delete" THEN <<Failed(DeleteIdsCall(ids))>>
    ELSE IF ~commit THEN <<DeleteIdsCall(ids)>>
    ELSE IF fail = "commit" THEN <<DeleteIdsCall(ids), Failed(CommitCall)>>
    ELSE <<DeleteIdsCall(ids), CommitCall>>

\* line 138 raises AttributeError at the first record when self has no
\* transform_id, or at the record transform_id fails on
NoTransformId(i, records) ==
    \/ records # <<>> /\ "transform_id" \notin types.methods[cls[i]]
    \/ \E n \in 1..Len(records) : Raised(transform_id(records[n]))

Delete(i, input, commit, fail) ==
    /\ cls[i] # Undefined
    /\ pc[i] = "idle"
    /\ budget > 0
    /\ fail = "commit" => commit
    /\ fail # "none" => faulty
    /\ LET records == AsList(input)
           raised == NoTransformId(i, records)
           ids == [n \in 1..Len(records) |-> transform_id(records[n])]
           log == IF raised THEN <<>> ELSE DeleteCalls(ids, commit, fail)
       IN /\ ~raised \/ fail = "none"
          /\ calls' = [calls EXCEPT ![i] = log]
          /\ backend' = IF ~raised /\ log[1].ok THEN BackendDeleteIds(backend, ids)
                        ELSE backend
          /\ outcome' = [outcome EXCEPT ![i] =
                 [op |-> "delete",
                  state |-> IF raised \/ ~AllOk(log) THEN "raised" ELSE "returned",
                  value |-> 0]]
    /\ stamps' = [stamps EXCEPT ![i] = <<>>]
    /\ request' = [request EXCEPT ![i] =
           [records |-> AsList(input), list |-> input.list, commit |-> commit]]
    /\ hist' = NoHist
    /\ done' = 0
    /\ budget' = budget - 1
    /\ UNCHANGED <<types, now, instVars, transformVars, source, pc, update_count,
                   record_pool, swept, faulty>>

(***************************************************************************)
(* SpecCall: a caller makes one call on an indexer, of any operation, with *)
(* any input, on a backend that may fail any of its calls.                 *)
(***************************************************************************)
CallRecords == {Titled(1), Untitled(2)}
CallLists == {<<>>, <<Titled(2), Titled(1)>>, <<Titled(2), Untitled(1)>>}

\* update(), given a single record or a list
Updates(i, singles, lists) ==
    \/ \E r \in singles, commit \in BOOLEAN, fail \in {"none", "add", "commit"} :
          update(i, [list |-> FALSE, value |-> r], commit, fail)
    \/ \E l \in lists, commit \in BOOLEAN, fail \in {"none", "add", "commit"} :
          update(i, [list |-> TRUE, value |-> l], commit, fail)

\* delete(), given a single record or a list
Deletes(i, singles, lists) ==
    \/ \E r \in singles, commit \in BOOLEAN, fail \in {"none", "delete", "commit"} :
          Delete(i, [list |-> FALSE, value |-> r], commit, fail)
    \/ \E l \in lists, commit \in BOOLEAN, fail \in {"none", "delete", "commit"} :
          Delete(i, [list |-> TRUE, value |-> l], commit, fail)

InitCall ==
    /\ \E c \in {"A", "B"} : Constructed(c)
    /\ budget = 1
    /\ faulty = TRUE

NextCall ==
    \/ Tick
    \/ Batch(1, CallRecords, CallLists)
    \/ Updates(1, CallRecords, CallLists)
    \/ Deletes(1, CallRecords, CallLists)
    \/ Reindex(1, Sources)

SpecCall == InitCall /\ [][NextCall]_vars

(***************************************************************************)
(* What the claims say of a record, stated on the record itself.           *)
(***************************************************************************)
Prefix(path, n) == SubSeq(path, 1, n)

\* some segment of the path, the last one included, is a missing attribute
\* or null, every segment before it having a value
PathAbsent(rec, path) ==
    \E n \in 1..Len(path) :
        /\ \A m \in 1..(n - 1) : rec[Prefix(path, m)] \notin {MISSING, NONE}
        /\ rec[Prefix(path, n)] \in {MISSING, NONE}

AttributeFields(fs) == {f \in DOMAIN fs : fs[f].attribute # <<>>}

\* the declared fields whose path leads to a non-empty value
NonEmptyFields(fs, rec) ==
    {f \in AttributeFields(fs) :
        ~PathAbsent(rec, fs[f].attribute) /\ rec[fs[f].attribute] # EMPTY}

\* the declared fields without a path whose hook the class defines and
\* whose hook gives a non-empty value
NonEmptyHooks(fs, methods, rec) ==
    {f \in DOMAIN fs \ AttributeFields(fs) :
        /\ f = "id" /\ "transform_id" \in methods
        /\ rec[<<"id">>] \notin {MISSING, NONE, EMPTY}}

Without(fs, f) == [g \in DOMAIN fs \ {f} |-> fs[g]]

(***************************************************************************)
(* Claims about transform, under SpecTransform.                            *)
(***************************************************************************)

\* C7: whenever a required attribute-path field of the indexer has an absent
\* segment in the record (missing or null, the last segment included),
\* transform raises and returns no document.
C7_RequiredAbsentRaises ==
    result.done =>
        \A f \in AttributeFields(fields[1]) :
            (~fields[1][f].optional /\ PathAbsent(record, fields[1][f].attribute))
                => (result.raised /\ result.document = NoDocument)

\* C8: an optional field whose path is absent never makes transform fail
\* (transform raises exactly when it raises without that field), the
\* document returned has no key for it, and every other field that resolved
\* to a non-empty value, by its path or by its hook, is in the document with
\* that value.
C8_OptionalAbsentOmitted ==
    result.done =>
        \A f \in AttributeFields(fields[1]) :
            (fields[1][f].optional /\ PathAbsent(record, fields[1][f].attribute)) =>
                /\ result.raised =
                     transform(Without(fields[1], f), types.methods[cls[1]],
                               MetaOf(types, cls[1]),
                               result.at, record).raised
                /\ ~result.raised =>
                     /\ f \notin DOMAIN result.document
                     /\ \A g \in NonEmptyFields(fields[1], record) :
                           /\ g \in DOMAIN result.document
                           /\ result.document[g] = record[fields[1][g].attribute]
                     /\ \A g \in NonEmptyHooks(fields[1], types.methods[cls[1]], record) :
                           /\ g \in DOMAIN result.document
                           /\ result.document[g] = record[<<g>>]

C8_Witness ==
    /\ result.done /\ ~result.raised
    /\ \E f \in AttributeFields(fields[1]) :
          /\ fields[1][f].optional
          /\ Len(fields[1][f].attribute) = 2
          /\ PathAbsent(record, fields[1][f].attribute)
          /\ NonEmptyFields(fields[1], record) # {}

\* C9: when transform returns, the keys of the document are exactly the
\* declared fields whose value (of the path, or of the hook the class
\* defines) is non-empty plus the two system fields, each
\* mapped to its value, and no key maps to an empty or null value.
C9_SparseDocument ==
    (result.done /\ ~result.raised) =>
        /\ DOMAIN result.document =
              NonEmptyFields(fields[1], record)
                  \cup NonEmptyHooks(fields[1], types.methods[cls[1]], record)
                  \cup SystemFields
        /\ \A g \in NonEmptyFields(fields[1], record) :
              result.document[g] = record[fields[1][g].attribute]
        /\ \A g \in NonEmptyHooks(fields[1], types.methods[cls[1]], record) :
              result.document[g] = record[<<g>>]
        /\ result.document["meta_type_s"] = MetaOf(types, cls[1])["type"]
        /\ result.document["meta_index_timestamp_dt"] = result.at
        /\ \A k \in DOMAIN result.document : result.document[k] \notin {NONE, EMPTY, MISSING}

C9_Witness ==
    /\ result.done /\ ~result.raised
    /\ NonEmptyHooks(fields[1], types.methods[cls[1]], record) # {}
    /\ \E f \in AttributeFields(fields[1]) :
          ~PathAbsent(record, fields[1][f].attribute)
              /\ record[fields[1][f].attribute] = EMPTY

(***************************************************************************)
(* Claims about the indexer types, under SpecMeta.                         *)
(***************************************************************************)

\* C10: every defined type keeps the configuration and the field set it had
\* when it was defined (its own keys and fields merged over the inherited
\* ones), whatever subtypes are defined after it.
C10_TypesKeepTheirDeclaration ==
    \A c \in Defined(types) :
        /\ MetaOf(types, c) = types.declared[c].meta
        /\ types.base_fields[c] = types.declared[c].fields

(***************************************************************************)
(* What the claims say of a run, stated on its backend calls.              *)
(***************************************************************************)
IsAdd(call) == call.op = "add"
AddsOf(log) == SelectSeq(log, IsAdd)

\* the documents of the add calls the backend accepted, in call order
RECURSIVE Submitted(_)
Submitted(log) ==
    IF log = <<>> THEN <<>>
    ELSE (IF Head(log).op = "add" /\ Head(log).ok THEN Head(log).docs ELSE <<>>)
             \o Submitted(Tail(log))

WrittenIds(log) ==
    {Submitted(log)[n]["id"] : n \in {m \in 1..Len(Submitted(log)) :
                                          "id" \in DOMAIN Submitted(log)[m]}}

RunTag(i) == Meta(i)["type"]
DeclaredTag(i) == types.declared[cls[i]].meta["type"]

IsDoc(doc) == doc # NoDocument
Stale(doc, tag, startedAt) ==
    /\ "meta_type_s" \in DOMAIN doc
    /\ doc["meta_type_s"] = tag
    /\ doc["meta_index_timestamp_dt"] < startedAt

(***************************************************************************)
(* Claims about reindex(), under Spec and SpecRun.                         *)
(***************************************************************************)

\* C1: when a reindex() has just returned, every document of the backend
\* that carries the type tag of the indexer was written by that reindex().
C1_UnrefreshedAreDeleted ==
    \A i \in Instances :
        done = i => TaggedIds(backend, RunTag(i)) \subseteq WrittenIds(calls[i])

\* C2: the reconciliation delete of a reindex() removes exactly the
\* documents that carry the type tag of the run and a timestamp strictly
\* before the watermark of the run, and leaves every other document as it was.
C2_DeleteSelectsStale ==
    \A i \in Instances :
        done = i =>
            \A k \in Ids :
                backend[k] = IF Stale(swept[k], RunTag(i), index_timestamp[i])
                             THEN NoDocument ELSE swept[k]

C2_Witness ==
    \E i \in Instances :
        /\ done = i
        /\ \E k \in Ids : IsDoc(swept[k]) /\ ~IsDoc(backend[k])
        /\ \E k \in Ids : /\ IsDoc(backend[k])
                          /\ backend[k]["meta_type_s"] # RunTag(i)
                          /\ backend[k]["meta_index_timestamp_dt"] < index_timestamp[i]
        /\ \E k \in Ids : /\ IsDoc(backend[k])
                          /\ backend[k]["meta_type_s"] = RunTag(i)
                          /\ backend[k]["meta_index_timestamp_dt"] = index_timestamp[i]

\* C3: every document an indexer has submitted carries the type tag its
\* type declared and the time of its own transformation, which is not
\* before the watermark of the indexer and not before the time of the
\* document submitted before it.
C3_SystemFields ==
    \A i \in Instances :
        LET docs == Submitted(calls[i])
        IN \A n \in 1..Len(docs) :
              /\ "meta_type_s" \in DOMAIN docs[n]
              /\ docs[n]["meta_type_s"] = DeclaredTag(i)
              /\ docs[n]["meta_index_timestamp_dt"] = stamps[i][n]
              /\ docs[n]["meta_index_timestamp_dt"] >= index_timestamp[i]
              /\ n > 1 => docs[n - 1]["meta_index_timestamp_dt"]
                              <= docs[n]["meta_index_timestamp_dt"]

\* C4: a reindex() that has returned made ceil(N/C) add calls for its N
\* records: floor(N/C) of C documents and then one of N mod C documents if
\* that is not zero.
C4_ChunkedAdds ==
    \A i \in Instances :
        done = i =>
            LET N == Len(source[i])
                C == COMMIT_CHUNK_SIZE
                adds == AddsOf(calls[i])
            IN /\ Len(adds) = (N + C - 1) \div C
               /\ \A n \in 1..Len(adds) :
                     Len(adds[n].docs) = IF n <= N \div C THEN C ELSE N % C

\* C5: the backend calls of a reindex() are add calls, then one commit made
\* once the source is exhausted and the batch flushed, then one delete; a
\* reindex() that has returned has made the commit and the delete.
C5_AddsCommitDelete ==
    \A i \in Instances :
        outcome[i].op = "reindex" =>
            /\ \A n \in 1..Len(calls[i]) :
                  /\ calls[i][n].op \in {"add", "commit"} =>
                        \A m \in 1..(n - 1) : calls[i][m].op = "add"
                  /\ calls[i][n].op = "commit" =>
                        /\ update_count[i] = Len(source[i])
                        /\ record_pool[i] = <<>>
                  /\ calls[i][n].op = "delete" =>
                        /\ n = Len(calls[i])
                        /\ n >= 2
                        /\ calls[i][n - 1].op = "commit"
            /\ outcome[i].state = "returned" =>
                  /\ Len(calls[i]) >= 2
                  /\ calls[i][Len(calls[i])].op = "delete"

C5_Witness ==
    \E i \in Instances :
        /\ done = i
        /\ Len(AddsOf(calls[i])) >= 3
        /\ Len(source[i]) > COMMIT_CHUNK_SIZE

\* C6: when a reindex() has returned, a second reindex() over the same
\* records was called next and has returned too, the documents carrying the
\* type tag are those the first run left.
C6_SecondRunDeletesNothing ==
    hist.second => hist.ids = hist.before

(***************************************************************************)
(* Claims about the type tag of a defined type, under SpecMeta.            *)
(***************************************************************************)

\* C11: every indexer type that has been defined has a type tag in its
\* effective configuration: a definition whose merged configuration lacks
\* the tag fails, with a Meta block that has no type and with no Meta block.
C11_DefinedTypesHaveTag ==
    \A c \in Defined(types) : "type" \in DOMAIN MetaOf(types, c)

(***************************************************************************)
(* Claims about single calls, under SpecCall.                              *)
(***************************************************************************)
LastCall(i) == calls[i][Len(calls[i])]

\* C12: a backend call that failed is the last backend call of its
\* operation, and the operation has raised: nothing is retried and nothing
\* follows a failed add, commit or delete.
C12_FailureEndsOperation ==
    \A i \in Instances :
        \A n \in 1..Len(calls[i]) :
            ~calls[i][n].ok =>
                /\ n = Len(calls[i])
                /\ outcome[i].state = "raised"
                /\ pc[i] = "idle"

C12_Witness ==
    \E i \in Instances :
        /\ outcome[i].op = "reindex"
        /\ Len(calls[i]) >= 2
        /\ LastCall(i).op = "add"
        /\ ~LastCall(i).ok
        /\ Len(LastCall(i).docs) > 0

(***************************************************************************)
(* Claims about what a reindex() that returned has submitted, under        *)
(* SpecRun.                                                                *)
(***************************************************************************)
Returned(i) == outcome[i].op = "reindex" /\ outcome[i].state = "returned"

\* the document of the n-th record of the source of run i, as transformed
\* when the run reached it
DocumentOf(i, n) ==
    transform(fields[i], MethodsOf(i), Meta(i), stamps[i][n], source[i][n]).document

\* the position of the commit among the backend calls of run i
CommitAt(i) == CHOOSE n \in 1..Len(calls[i]) : calls[i][n].op = "commit"

\* C13: a reindex() that returned has returned the number of records of its
\* source, has transformed every one of them, and has submitted the
\* document of each in an add call made before the commit.
C13_ReturnsRecordCount ==
    \A i \in Instances :
        Returned(i) =>
            /\ outcome[i].value = Len(source[i])
            /\ Len(stamps[i]) = Len(source[i])
            /\ \A n \in 1..Len(source[i]) :
                  \E m \in 1..(CommitAt(i) - 1) :
                      /\ calls[i][m].op = "add"
                      /\ calls[i][m].ok
                      /\ \E k \in 1..Len(calls[i][m].docs) :
                            calls[i][m].docs[k] = DocumentOf(i, n)

C13_Witness ==
    \E i \in Instances :
        /\ Returned(i)
        /\ outcome[i].value > COMMIT_CHUNK_SIZE
        /\ outcome[i].value = Len(source[i])

(***************************************************************************)
(* SpecConcurrent: two indexers of one type, the second constructed while  *)
(* the first may be running; their reindex() runs interleave step by step, *)
(* each over the source as it is when the run starts.                      *)
(***************************************************************************)
InitConcurrent ==
    /\ Constructed("A")
    /\ budget = 2
    /\ faulty = FALSE

\* the sources of two concurrent runs: up to a source that is longer than
\* one chunk
ConcurrentSources == ScenarioSources \cup {SourceOf(1..MaxId, 0)}

NextConcurrent ==
    \/ Tick
    \/ \E c \in {"A", "B"} : Construct(2, c)
    \/ Reindex(1, ConcurrentSources)
    \/ Reindex(2, ConcurrentSources)

SpecConcurrent == InitConcurrent /\ [][NextConcurrent]_vars

\* C14: nothing shields the documents of another run of the same type tag:
\* when the reconciliation delete of run i has just been made, every
\* document that run j wrote and that was, at the delete, under the tag of
\* i with a timestamp before the watermark of i is gone, whether or not j
\* is still running.
C14_NoIsolation ==
    \A i \in Instances, j \in Instances :
        (i # j /\ done = i /\ outcome[j].op = "reindex") =>
            \A k \in WrittenIds(calls[j]) :
                Stale(swept[k], RunTag(i), index_timestamp[i]) => ~IsDoc(backend[k])

C14_Witness ==
    \E i \in Instances, j \in Instances :
        /\ i # j
        /\ done = i
        /\ pc[j] # "idle"
        /\ RunTag(j) = RunTag(i)
        /\ \E k \in WrittenIds(calls[j]) \ WrittenIds(calls[i]) :
              /\ IsDoc(swept[k])
              /\ ~IsDoc(backend[k])

(***************************************************************************)
(* Claims about add(), delete() and update(), under SpecCall.              *)
(***************************************************************************)
Ended(i, op) == outcome[i].op = op /\ outcome[i].state = "returned"

\* the documents of the records the operation of i was given, in input order
RequestDocuments(i) ==
    [n \in 1..Len(request[i].records) |->
        transform(fields[i], MethodsOf(i), Meta(i), stamps[i][n], request[i].records[n]).document]

\* C15: an add() that returned has made one backend add call, whose payload
\* is the documents of the given records in input order (one document for a
\* single record), and after it one commit if commit was true, nothing if
\* it was false.
C15_AddIsOneWrite ==
    \A i \in Instances :
        Ended(i, "add") =>
            /\ Len(stamps[i]) = Len(request[i].records)
            /\ calls[i] = <<AddCall(RequestDocuments(i))>>
                              \o (IF request[i].commit THEN <<CommitCall>> ELSE <<>>)

C15_Witness ==
    \E i \in Instances :
        /\ Ended(i, "add")
        /\ request[i].list
        /\ Len(request[i].records) = 2
        /\ ~request[i].commit
        /\ Len(calls[i][1].docs) = 2
        /\ calls[i][1].docs[1]["id"] = 2
        /\ calls[i][1].docs[2]["id"] = 1

\* the identifiers of the records the operation of i was given, in input order
RequestIds(i) ==
    [n \in 1..Len(request[i].records) |-> request[i].records[n][<<"id">>]]

\* C16: a delete() that the backend did not fail, on any indexer, has made
\* one backend delete call, whose payload is the identifiers of the given
\* records in input order and nothing else, and after it one commit if
\* commit was true, nothing if it was false.
C16_DeleteIsOneDeleteById ==
    \A i \in Instances :
        (outcome[i].op = "delete" /\ AllOk(calls[i])) =>
            calls[i] = <<DeleteIdsCall(RequestIds(i))>>
                           \o (IF request[i].commit THEN <<CommitCall>> ELSE <<>>)

\* C17: an update() that returned has made the backend calls of
\* add(records, commit=True), one add of the documents of the given records
\* and one commit, whatever its own commit argument was.
C17_UpdateCommitsAlways ==
    \A i \in Instances :
        Ended(i, "update") =>
            /\ Len(stamps[i]) = Len(request[i].records)
            /\ calls[i] = <<AddCall(RequestDocuments(i)), CommitCall>>

C17_Witness ==
    \E i \in Instances :
        /\ Ended(i, "update")
        /\ ~request[i].commit
        /\ Len(request[i].records) = 2
        /\ Len(calls[i]) = 2
        /\ calls[i][2].op = "commit"

(***************************************************************************)
(* Claims about records that fail to transform, under SpecCall.            *)
(***************************************************************************)
\* transform raises on the record (whether it does is the same at any time)
FailsToTransform(i, rec) == transform(fields[i], MethodsOf(i), Meta(i), 1, rec).raised

FailingAt(i, records) == {n \in 1..Len(records) : FailsToTransform(i, records[n])}

HasCall(i, op) == \E n \in 1..Len(calls[i]) : calls[i][n].op = op

\* C18: an add() given a record that fails to transform has raised without
\* any backend call; a reindex() whose source holds such a record never
\* transforms a record after the first of them, never returns, and makes no
\* commit and no delete; no reindex() makes a delete before it has
\* transformed every record of its source.
C18_TransformFailureIsBatchFatal ==
    \A i \in Instances :
        /\ (outcome[i].op = "add" /\ FailingAt(i, request[i].records) # {}) =>
              /\ calls[i] = <<>>
              /\ outcome[i].state = "raised"
        /\ (outcome[i].op = "reindex" /\ FailingAt(i, source[i]) # {}) =>
              /\ \A n \in FailingAt(i, source[i]) :
                    update_count[i] < n /\ Len(stamps[i]) < n
              /\ outcome[i].state # "returned"
              /\ ~HasCall(i, "commit")
              /\ ~HasCall(i, "delete")
        /\ (outcome[i].op = "reindex" /\ HasCall(i, "delete")) =>
              Len(stamps[i]) = Len(source[i])

C18_Witness ==
    \E i \in Instances :
        /\ outcome[i].op = "reindex"
        /\ outcome[i].state = "raised"
        /\ AllOk(calls[i])
        /\ \E n \in FailingAt(i, source[i]) :
              /\ n < Len(source[i])
              /\ n > 1
              /\ update_count[i] = n - 1
        /\ HasCall(i, "add")

(***************************************************************************)
(* Claims about the batches of reindex(), under SpecRun.                   *)
(***************************************************************************)
SourceDocuments(i) == [n \in 1..Len(source[i]) |-> DocumentOf(i, n)]

\* C19: the payloads of the add calls of a reindex() that returned, put end
\* to end in call order, are the documents of the records of the source in
\* source order: each once, none lost, none twice.
C19_EachDocumentOnce ==
    \A i \in Instances :
        Returned(i) => Submitted(calls[i]) = SourceDocuments(i)

C19_Witness ==
    \E i \in Instances :
        /\ Returned(i)
        /\ Len(source[i]) > COMMIT_CHUNK_SIZE
        /\ \E m \in 1..Len(calls[i]), n \in 1..Len(calls[i]) :
              /\ m < n
              /\ calls[i][m].op = "add" /\ Len(calls[i][m].docs) = COMMIT_CHUNK_SIZE
              /\ calls[i][n].op = "add" /\ Len(calls[i][n].docs) > 0

\* C20: at every point of a reindex() the batch in memory holds at most
\* COMMIT_CHUNK_SIZE documents, and so does every add call it has made.
C20_BatchAtMostChunk ==
    \A i \in Instances :
        /\ Len(record_pool[i]) <= COMMIT_CHUNK_SIZE
        /\ outcome[i].op = "reindex" =>
              \A n \in 1..Len(calls[i]) :
                  calls[i][n].op = "add" => Len(calls[i][n].docs) <= COMMIT_CHUNK_SIZE

C20_Witness ==
    \E i \in Instances :
        /\ pc[i] = "streaming"
        /\ Len(source[i]) = COMMIT_CHUNK_SIZE
        /\ update_count[i] = Len(source[i])
        /\ Len(record_pool[i]) = COMMIT_CHUNK_SIZE

====
